---- MODULE Spec2Model ----
(***************************************************************************)
(* A model of the SudoSharp interpreter engine (src/sudosharp.py): the     *)
(* tokenizer, string interpolation, the expression evaluator, the command  *)
(* handlers, the loop stack and run_program's cursor loop.                 *)
(*                                                                         *)
(* Text is modelled at character level: a Python str is a sequence of      *)
(* one-character strings.  A Python value is a record [t, n, d, s]:        *)
(*   t = "Int"     the integer n            (d = 1, s = <<>>)               *)
(*   t = "Bool"    True (n = 1) / False (n = 0)                            *)
(*   t = "Float"   the rational n / d in lowest terms, d > 0; negative     *)
(*                 zero is n = 0, d = -1; a float whose digits do not fit   *)
(*                 the integers of TLC (math.pi, math.e) carries its       *)
(*                 repr in s and its integer part in n                     *)
(*   t = "Str"     the text s                                              *)
(*   t = "Builtin" a built-in function, s its name                         *)
(* Floats are exact rationals: the rounding of IEEE doubles is not         *)
(* modelled; the programs of the model compute floats that print alike.    *)
(***************************************************************************)
EXTENDS Integers, Sequences, FiniteSets, TLC

VARIABLES
    pc,             \* "constructed" | "running" | "returned" | "raised"
    program_lines,  \* self.program_lines
    current_line,   \* self.current_line (0-based, as in the code)
    running,        \* self.running
    variables,      \* self.variables: a function from names to values
    loop_stack,     \* self.loop_stack: a sequence of frames, top last
    stdin,          \* the lines input() has still to return
    stdout,         \* the print() calls made so far
    fault,          \* the exception that left run_program, or "none"
    history         \* the lines executed so far, with `i` as each one found it

vars == <<pc, program_lines, current_line, running, variables, loop_stack,
          stdin, stdout, fault, history>>

----------------------------------------------------------------------------
(* Characters and strings                                                  *)

UpperLetters == <<"A","B","C","D","E","F","G","H","I","J","K","L","M",
                  "N","O","P","Q","R","S","T","U","V","W","X","Y","Z">>

LowerLetters == <<"a","b","c","d","e","f","g","h","i","j","k","l","m",
                  "n","o","p","q","r","s","t","u","v","w","x","y","z">>

DigitChars == <<"0","1","2","3","4","5","6","7","8","9">>

Range(f) == {f[k] : k \in DOMAIN f}

\* str.isspace() for one character
IsSpace(c) == c \in {" ", "\t", "\n", "\r"}

IsDigit(c) == c \in Range(DigitChars)

DigitVal(c) == (CHOOSE k \in 1..10 : DigitChars[k] = c) - 1

\* [a-zA-Z0-9_], the identifier class of the interpolation pattern
IsWordChar(c) ==
    c \in Range(UpperLetters) \cup Range(LowerLetters) \cup Range(DigitChars) \cup {"_"}

LowerChar(c) ==
    IF c \in Range(UpperLetters)
    THEN LowerLetters[CHOOSE k \in 1..26 : UpperLetters[k] = c]
    ELSE c

\* str.lower()
Lower(s) == [k \in 1..Len(s) |-> LowerChar(s[k])]

\* str.startswith(p)
StartsWith(s, p) == Len(s) >= Len(p) /\ SubSeq(s, 1, Len(p)) = p

\* str.endswith(p)
EndsWith(s, p) == Len(s) >= Len(p) /\ SubSeq(s, Len(s) - Len(p) + 1, Len(s)) = p

\* c in s
Contains(s, c) == \E k \in 1..Len(s) : s[k] = c

\* str.strip(): leading and trailing whitespace removed
Strip(s) ==
    LET nonsp == {k \in 1..Len(s) : ~IsSpace(s[k])}
    IN  IF nonsp = {} THEN <<>>
        ELSE SubSeq(s, CHOOSE k \in nonsp : \A j \in nonsp : k <= j,
                       CHOOSE k \in nonsp : \A j \in nonsp : k >= j)

\* str.rstrip()
RStrip(s) ==
    LET nonsp == {k \in 1..Len(s) : ~IsSpace(s[k])}
    IN  IF nonsp = {} THEN <<>>
        ELSE SubSeq(s, 1, CHOOSE k \in nonsp : \A j \in nonsp : k >= j)

\* str.find(p): the 0-based index of the first occurrence of p, or -1
Find(s, p) ==
    LET hits == {k \in 1..(Len(s) - Len(p) + 1) : SubSeq(s, k, k + Len(p) - 1) = p}
    IN  IF hits = {} THEN -1
        ELSE (CHOOSE k \in hits : \A j \in hits : k <= j) - 1

\* str.split('\n')
RECURSIVE SplitLines(_)
SplitLines(s) ==
    LET at == Find(s, <<"\n">>)
    IN  IF at = -1 THEN <<s>>
        ELSE <<SubSeq(s, 1, at)>> \o SplitLines(SubSeq(s, at + 2, Len(s)))

----------------------------------------------------------------------------
(* Tokenizer                                                               *)

\* the scanning loop of tokenize, from the 1-based position i
RECURSIVE ScanTokens(_, _)
ScanTokens(line, i) ==
    IF i > Len(line) THEN <<>>
    ELSE IF line[i] = "\"" THEN
        LET closing == {k \in (i + 1)..Len(line) : line[k] = "\""}
        IN  IF closing # {}
            THEN LET j == CHOOSE k \in closing : \A m \in closing : k <= m
                 IN  <<SubSeq(line, i, j)>> \o ScanTokens(line, j + 1)
            ELSE <<SubSeq(line, i, Len(line))>>
    ELSE IF ~IsSpace(line[i]) THEN
        LET spaces == {k \in (i + 1)..Len(line) : IsSpace(line[k])}
            j == IF spaces = {} THEN Len(line) + 1
                 ELSE CHOOSE k \in spaces : \A m \in spaces : k <= m
        IN  <<SubSeq(line, i, j - 1)>> \o ScanTokens(line, j)
    ELSE ScanTokens(line, i + 1)

kw_print == <<"p","r","i","n","t">>

kw_dollar_print == <<"$","p","r","i","n","t">>

\* a line the tokenizer and execute_line take for a `$` comment
IsDollarComment(line) ==
    /\ StartsWith(Strip(line), <<"$">>)
    /\ ~StartsWith(Lower(Strip(line)), kw_dollar_print)

tokenize(line) ==
    IF IsDollarComment(line) THEN <<>>
    ELSE IF StartsWith(Lower(Strip(line)), kw_print) THEN
        LET print_arg == Strip(SubSeq(line, Find(Lower(line), kw_print) + 6, Len(line)))
        IN  IF print_arg # <<>> THEN <<kw_print, print_arg>> ELSE <<kw_print>>
    ELSE ScanTokens(line, 1)

----------------------------------------------------------------------------
(* Values                                                                  *)

Abs(n) == IF n < 0 THEN -n ELSE n

RECURSIVE GCD(_, _)
GCD(a, b) == IF b = 0 THEN a ELSE GCD(b, a % b)

RECURSIVE Pow10(_)
Pow10(k) == IF k <= 0 THEN 1 ELSE 10 * Pow10(k - 1)

IntV(n) == [t |-> "Int", n |-> n, d |-> 1, s |-> <<>>]

BoolV(b) == [t |-> "Bool", n |-> IF b THEN 1 ELSE 0, d |-> 1, s |-> <<>>]

\* the float n / d (d # 0), kept in lowest terms with a positive denominator
FloatV(n, d) ==
    LET g  == GCD(Abs(n), Abs(d))
        sg == IF d < 0 THEN -1 ELSE 1
    IN  [t |-> "Float", n |-> (sg * n) \div g, d |-> Abs(d) \div g, s |-> <<>>]

\* -0.0
NegZero == [t |-> "Float", n |-> 0, d |-> -1, s |-> <<>>]

\* the denominator of a numeric value
Den(v) == Abs(v.d)

\* the sign bit of a numeric value
IsNegative(v) == v.n < 0 \/ v.d < 0

\* a float constant too long for exact arithmetic here: its repr, and its
\* integer part for int(); the programs of the model never compute with one
FloatConst(repr, whole) == [t |-> "Float", n |-> whole, d |-> 1, s |-> repr]

StrV(s) == [t |-> "Str", n |-> 0, d |-> 1, s |-> s]

BuiltinV(name) == [t |-> "Builtin", n |-> 0, d |-> 1, s |-> name]

\* isinstance(v, (int, float)): bool is a subclass of int
IsNumeric(v) == v.t \in {"Int", "Float", "Bool"}

\* v == 0 for a numeric v
IsZero(v) == v.n = 0 /\ v.s = <<>>

----------------------------------------------------------------------------
(* int(text), float(text) and str(value)                                   *)

\* a run of decimal digits, single underscores allowed between digits
DigitsOK(s) ==
    /\ Len(s) > 0
    /\ IsDigit(s[1]) /\ IsDigit(s[Len(s)])
    /\ \A k \in 1..Len(s) : IsDigit(s[k]) \/ s[k] = "_"
    /\ \A k \in 1..(Len(s) - 1) : ~(s[k] = "_" /\ s[k + 1] = "_")

RECURSIVE DigitsValue(_)
DigitsValue(s) ==
    IF s = <<>> THEN 0
    ELSE IF s[Len(s)] = "_" THEN DigitsValue(SubSeq(s, 1, Len(s) - 1))
    ELSE 10 * DigitsValue(SubSeq(s, 1, Len(s) - 1)) + DigitVal(s[Len(s)])

DigitCount(s) == Cardinality({k \in 1..Len(s) : IsDigit(s[k])})

HasSign(s) == Len(s) > 0 /\ s[1] \in {"+", "-"}

Unsigned(s) == IF HasSign(s) THEN SubSeq(s, 2, Len(s)) ELSE s

SignOf(s) == IF HasSign(s) /\ s[1] = "-" THEN -1 ELSE 1

\* int(text) succeeds
IntTextOK(text) == DigitsOK(Unsigned(Strip(text)))

\* int(text) where it succeeds
IntTextValue(text) == SignOf(Strip(text)) * DigitsValue(Unsigned(Strip(text)))

\* the parts of a float literal without its sign: mantissa and exponent
FloatMantissa(body) ==
    LET es == {k \in 1..Len(body) : body[k] \in {"e", "E"}}
    IN  IF es = {} THEN body
        ELSE SubSeq(body, 1, (CHOOSE k \in es : \A j \in es : k <= j) - 1)

FloatExponent(body) ==
    LET es == {k \in 1..Len(body) : body[k] \in {"e", "E"}}
    IN  IF es = {} THEN <<"0">>
        ELSE SubSeq(body, (CHOOSE k \in es : \A j \in es : k <= j) + 1, Len(body))

MantissaWhole(m) ==
    IF Contains(m, ".") THEN SubSeq(m, 1, Find(m, <<".">>)) ELSE m

MantissaFrac(m) ==
    IF Contains(m, ".") THEN SubSeq(m, Find(m, <<".">>) + 2, Len(m)) ELSE <<>>

MantissaOK(m) ==
    IF Contains(m, ".")
    THEN /\ MantissaWhole(m) = <<>> \/ DigitsOK(MantissaWhole(m))
         /\ MantissaFrac(m) = <<>> \/ DigitsOK(MantissaFrac(m))
         /\ MantissaWhole(m) # <<>> \/ MantissaFrac(m) # <<>>
    ELSE DigitsOK(m)

\* float(text) succeeds, for a text that holds a "." (inf and nan hold none)
FloatTextOK(text) ==
    LET body == Unsigned(Strip(text))
    IN  /\ MantissaOK(FloatMantissa(body))
        /\ DigitsOK(Unsigned(FloatExponent(body)))

\* float(text) where it succeeds
FloatTextValue(text) ==
    LET body  == Unsigned(Strip(text))
        m     == FloatMantissa(body)
        ex    == SignOf(FloatExponent(body)) * DigitsValue(Unsigned(FloatExponent(body)))
        scale == DigitCount(MantissaFrac(m))
        num   == DigitsValue(MantissaWhole(m)) * Pow10(scale) + DigitsValue(MantissaFrac(m))
    IN  IF num = 0 /\ SignOf(Strip(text)) = -1 THEN NegZero
        ELSE FloatV(SignOf(Strip(text)) * num * Pow10(ex), Pow10(scale) * Pow10(-ex))

\* int(v) of a float: truncation towards zero
Truncate(v) == IF v.n >= 0 THEN v.n \div Den(v) ELSE -((-v.n) \div Den(v))

RECURSIVE NatToStr(_)
NatToStr(n) ==
    IF n < 10 THEN <<DigitChars[n + 1]>>
    ELSE NatToStr(n \div 10) \o <<DigitChars[(n % 10) + 1]>>

\* str(n) of an int
IntToStr(n) == IF n < 0 THEN <<"-">> \o NatToStr(-n) ELSE NatToStr(n)

\* the decimal digits of r / d (0 <= r < d) by long division, at most k of them
RECURSIVE FracDigits(_, _, _)
FracDigits(r, d, k) ==
    IF r = 0 \/ k = 0 THEN <<>>
    ELSE <<DigitChars[((10 * r) \div d) + 1]>> \o FracDigits((10 * r) % d, d, k - 1)

\* repr of a float in fixed notation: Python's repr for a value with at most
\* 16 decimals and a magnitude in [1e-4, 1e16).  A value with more decimals
\* is cut after 16, which is not always the shortest repr Python prints: the
\* programs of the model print no such value
FloatToStr(v) ==
    IF v.s # <<>> THEN v.s
    ELSE LET whole == Abs(v.n) \div Den(v)
             frac  == FracDigits(Abs(v.n) % Den(v), Den(v), 16)
         IN  (IF IsNegative(v) THEN <<"-">> ELSE <<>>)
             \o NatToStr(whole) \o <<".">>
             \o (IF frac = <<>> THEN <<"0">> ELSE frac)

ClassNames == {<<"i","n","t">>, <<"f","l","o","a","t">>, <<"s","t","r">>}

\* str(v)
PyStr(v) ==
    CASE v.t = "Int"     -> IntToStr(v.n)
      [] v.t = "Bool"    -> IF v.n = 1 THEN <<"T","r","u","e">> ELSE <<"F","a","l","s","e">>
      [] v.t = "Float"   -> FloatToStr(v)
      [] v.t = "Str"     -> v.s
      [] v.t = "Builtin" ->
            IF v.s \in ClassNames
            THEN <<"<","c","l","a","s","s"," ","'">> \o v.s \o <<"'",">">>
            ELSE <<"<","b","u","i","l","t","-","i","n"," ",
                   "f","u","n","c","t","i","o","n"," ">> \o v.s \o <<">">>

----------------------------------------------------------------------------
(* String interpolation and the expression evaluator                       *)

\* name in self.variables
Bound(env, name) == name \in DOMAIN env

\* the substitution with an unbound marker replaced by the empty text
RECURSIVE Interpolate_blank_unbound(_, _, _)
Interpolate_blank_unbound(env, text, i) ==
    IF i > Len(text) THEN <<>>
    ELSE LET stops == {k \in (i + 1)..Len(text) : ~IsWordChar(text[k])}
             j     == IF stops = {} THEN 0
                      ELSE CHOOSE k \in stops : \A m \in stops : k <= m
             name  == SubSeq(text, i + 1, j - 1)
         IN  IF text[i] = "$" /\ j > i + 1 /\ text[j] = "$"
             THEN (IF Bound(env, name) THEN PyStr(env[name]) ELSE <<>>)
                  \o Interpolate_blank_unbound(env, text, j + 1)
             ELSE <<text[i]>> \o Interpolate_blank_unbound(env, text, i + 1)

\* re.sub of \$([a-zA-Z0-9_]+)\$ from the 1-based position i: leftmost
\* matches, not overlapping, the replacement text not scanned again
RECURSIVE Interpolate(_, _, _)
Interpolate(env, text, i) ==
    IF i > Len(text) THEN <<>>
    ELSE LET stops == {k \in (i + 1)..Len(text) : ~IsWordChar(text[k])}
             j     == IF stops = {} THEN 0
                      ELSE CHOOSE k \in stops : \A m \in stops : k <= m
             name  == SubSeq(text, i + 1, j - 1)
         IN  IF text[i] = "$" /\ j > i + 1 /\ text[j] = "$"
             THEN (IF Bound(env, name) THEN PyStr(env[name])
                   ELSE <<"$">> \o name \o <<"$">>)
                  \o Interpolate(env, text, j + 1)
             ELSE <<text[i]>> \o Interpolate(env, text, i + 1)

process_string_interpolation(env, text) == Interpolate(env, text, 1)

IsQuoted(tok) == StartsWith(tok, <<"\"">>) /\ EndsWith(tok, <<"\"">>)

\* tok[1:-1]
Unquote(tok) == SubSeq(tok, 2, Len(tok) - 1)

TrueWords == {<<"y","e","s">>, <<"t","r","u","e">>}

FalseWords == {<<"n","o">>, <<"f","a","l","s","e">>}

evaluate_expression(env, token) ==
    LET expr == IF Contains(token, "$")
                THEN process_string_interpolation(env, token) ELSE token
    IN  IF Bound(env, expr) THEN env[expr]
        ELSE IF IsQuoted(expr) THEN StrV(Unquote(expr))
        ELSE IF Contains(expr, ".") /\ FloatTextOK(expr) THEN FloatTextValue(expr)
        ELSE IF ~Contains(expr, ".") /\ IntTextOK(expr) THEN IntV(IntTextValue(expr))
        ELSE IF Lower(expr) \in TrueWords THEN BoolV(TRUE)
        ELSE IF Lower(expr) \in FalseWords THEN BoolV(FALSE)
        ELSE StrV(expr)

----------------------------------------------------------------------------
(* Arithmetic of execute_set                                               *)

IsIntLike(v) == v.t \in {"Int", "Bool"}

\* the float n / d that an operation on l and r yields, -0.0 when negzero
\* says so; an operand that is a long float constant makes the result one
\* whose digits are not modelled
FloatResult(l, r, n, d, negzero) ==
    IF l.s # <<>> \/ r.s # <<>> THEN FloatConst(<<"?">>, Truncate(FloatV(n, d)))
    ELSE IF n = 0 /\ negzero THEN NegZero
    ELSE FloatV(n, d)

\* left + right that promotes to a float only when both operands are floats
PyAdd_float_when_both(l, r) ==
    IF l.t = "Float" /\ r.t = "Float"
    THEN FloatResult(l, r, l.n * Den(r) + r.n * Den(l), Den(l) * Den(r),
                     l = NegZero /\ r = NegZero)
    ELSE IntV(Truncate(FloatV(l.n * Den(r) + r.n * Den(l), Den(l) * Den(r))))

\* left + right: -0.0 only as (-0.0) + (-0.0)
PyAdd(l, r) ==
    IF IsIntLike(l) /\ IsIntLike(r) THEN IntV(l.n + r.n)
    ELSE FloatResult(l, r, l.n * Den(r) + r.n * Den(l), Den(l) * Den(r),
                     l = NegZero /\ r = NegZero)

\* left - right: -0.0 only as (-0.0) - (+0.0)
PySub(l, r) ==
    IF IsIntLike(l) /\ IsIntLike(r) THEN IntV(l.n - r.n)
    ELSE FloatResult(l, r, l.n * Den(r) - r.n * Den(l), Den(l) * Den(r),
                     l = NegZero /\ r.n = 0 /\ r # NegZero)

\* left * right: a zero product takes the sign of the operands
PyMul(l, r) ==
    IF IsIntLike(l) /\ IsIntLike(r) THEN IntV(l.n * r.n)
    ELSE FloatResult(l, r, l.n * r.n, Den(l) * Den(r),
                     IsNegative(l) # IsNegative(r))

\* left / right, right nonzero: true division, a float whatever the operands
PyDiv(l, r) ==
    FloatResult(l, r, l.n * Den(r), Den(l) * r.n, IsNegative(l) # IsNegative(r))

----------------------------------------------------------------------------
(* Command handlers.  A handler maps the interpreter state                 *)
(*   st = [variables, loop_stack, running, current_line, stdin, stdout,    *)
(*         fault]                                                          *)
(* to the state it leaves; fault # "none" says an exception left it.       *)
(* A print() call is recorded as [msg, text]: msg the fixed text of the    *)
(* message ("print" for program output), text what was formatted into it.  *)

Say(st, msg, text) ==
    [st EXCEPT !.stdout = Append(@, [msg |-> msg, text |-> text])]

\* the assignment as self.variables = {name: v}: a new dictionary
Assign_new_dict(st, name, v) ==
    [st EXCEPT !.variables = (name :> v)]

\* self.variables[name] = v
Assign(st, name, v) ==
    [st EXCEPT !.variables = (name :> v) @@ @]

Raise(st, exc) == [st EXCEPT !.fault = exc]

kw_to == <<"t","o">>
kw_for == <<"f","o","r">>
kw_through == <<"t","h","r","o","u","g","h">>
kw_and == <<"a","n","d">>
kw_loop == <<"l","o","o","p">>
kw_end == <<"e","n","d">>
kw_set == <<"s","e","t">>
kw_ask == <<"a","s","k">>
kw_import == <<"i","m","p","o","r","t">>
kw_if == <<"i","f">>
kw_exit == <<"e","x","i","t">>
kw_quit == <<"q","u","i","t">>
kw_help == <<"h","e","l","p">>
kw_plus == <<"p","l","u","s">>
kw_minus == <<"m","i","n","u","s">>
kw_times == <<"t","i","m","e","s">>
kw_divided == <<"d","i","v","i","d","e","d">>
kw_by == <<"b","y">>
kw_math == <<"m","a","t","h">>
name_i == <<"i">>

\* the loop of execute_print over tokens[k:]: str(value) + " " for each
RECURSIVE PrintJoin(_, _, _)
PrintJoin(env, tokens, k) ==
    IF k > Len(tokens) THEN <<>>
    ELSE PyStr(evaluate_expression(env, tokens[k])) \o <<" ">>
         \o PrintJoin(env, tokens, k + 1)

execute_print(st, tokens) ==
    IF Len(tokens) < 2 THEN Say(st, "print", <<>>)
    ELSE IF Contains(tokens[2], "$")
    THEN Say(st, "print", process_string_interpolation(st.variables, tokens[2]))
    ELSE IF Len(tokens) = 2 /\ IsQuoted(tokens[2])
    THEN Say(st, "print", Unquote(tokens[2]))
    ELSE Say(st, "print", RStrip(PrintJoin(st.variables, tokens, 2)))

\* "{left} and {right}" of the type error messages
OperandsText(l, r) == PyStr(l) \o <<" ","a","n","d"," ">> \o PyStr(r)

\* the `divided by` branch with the test `right == 0` narrowed to the int 0:
\* a float zero reaches the division, which raises ZeroDivisionError
SetDivision_int_zero_only(st, var_name, value_tokens) ==
    IF Len(value_tokens) < 4
    THEN Say(st, "Error: Invalid division format. Use 'divided by value'", <<>>)
    ELSE LET left  == evaluate_expression(st.variables, value_tokens[1])
             right == evaluate_expression(st.variables, value_tokens[4])
         IN  IF ~IsNumeric(left) \/ ~IsNumeric(right)
             THEN Say(st, "Error: Cannot perform division on non-numeric values",
                      OperandsText(left, right))
             ELSE IF IsZero(right) /\ IsIntLike(right)
             THEN Say(st, "Error: Division by zero", <<>>)
             ELSE IF IsZero(right)
             THEN Raise(st, "ZeroDivisionError")
             ELSE Assign(st, var_name, PyDiv(left, right))

\* the `divided by` branch of execute_set
SetDivision(st, var_name, value_tokens) ==
    IF Len(value_tokens) < 4
    THEN Say(st, "Error: Invalid division format. Use 'divided by value'", <<>>)
    ELSE LET left  == evaluate_expression(st.variables, value_tokens[1])
             right == evaluate_expression(st.variables, value_tokens[4])
         IN  IF ~IsNumeric(left) \/ ~IsNumeric(right)
             THEN Say(st, "Error: Cannot perform division on non-numeric values",
                      OperandsText(left, right))
             ELSE IF IsZero(right)
             THEN Say(st, "Error: Division by zero", <<>>)
             ELSE Assign(st, var_name, PyDiv(left, right))

\* the plus / minus / times branch of execute_set
SetOperation(st, var_name, value_tokens) ==
    LET left  == evaluate_expression(st.variables, value_tokens[1])
        op    == Lower(value_tokens[2])
        right == evaluate_expression(st.variables, value_tokens[3])
    IN  IF ~IsNumeric(left) \/ ~IsNumeric(right)
        THEN Say(st, "Error: Cannot perform math operations on non-numeric values",
                 OperandsText(left, right))
        ELSE IF op = kw_plus THEN Assign(st, var_name, PyAdd(left, right))
        ELSE IF op = kw_minus THEN Assign(st, var_name, PySub(left, right))
        ELSE IF op = kw_times THEN Assign(st, var_name, PyMul(left, right))
        ELSE Say(st, "Error: Unknown operation", op)

execute_set(st, tokens) ==
    IF Len(tokens) < 4
    THEN Say(st, "Error: Invalid set command format. Use 'set variable to value'", <<>>)
    ELSE IF Lower(tokens[3]) # kw_to
    THEN Say(st, "Error: Invalid set command format. Use 'set variable to value'", <<>>)
    ELSE LET var_name     == tokens[2]
             value_tokens == SubSeq(tokens, 4, Len(tokens))
         IN  IF Len(value_tokens) = 1
             THEN Assign(st, var_name, evaluate_expression(st.variables, value_tokens[1]))
             ELSE IF Len(value_tokens) >= 3
             THEN IF Lower(value_tokens[2]) = kw_divided /\ Lower(value_tokens[3]) = kw_by
                  THEN SetDivision(st, var_name, value_tokens)
                  ELSE SetOperation(st, var_name, value_tokens)
             ELSE st

\* the conversion of execute_ask: float, then int, else the raw text
InputValue(user_input) ==
    IF Contains(user_input, ".") /\ FloatTextOK(user_input)
    THEN FloatTextValue(user_input)
    ELSE IF ~Contains(user_input, ".") /\ IntTextOK(user_input)
    THEN IntV(IntTextValue(user_input))
    ELSE StrV(user_input)

execute_ask(st, tokens) ==
    IF Len(tokens) < 3 \/ Lower(tokens[2]) # kw_for
    THEN Say(st, "Error: Invalid ask command format. Use 'ask for variable'", <<>>)
    ELSE IF st.stdin = <<>>
    THEN Raise(Say(st, "> ", <<>>), "EOFError")
    ELSE Assign([Say(st, "> ", <<>>) EXCEPT !.stdin = Tail(@)],
                tokens[3], InputValue(Head(st.stdin)))

\* what int(v) does: "ok", "ValueError" or "TypeError"
IntOutcome(v) ==
    CASE v.t \in {"Int", "Bool", "Float"} -> "ok"
      [] v.t = "Str" -> IF IntTextOK(v.s) THEN "ok" ELSE "ValueError"
      [] v.t = "Builtin" -> "TypeError"

\* int(v) where it succeeds
IntOf(v) ==
    CASE v.t \in {"Int", "Bool"} -> v.n
      [] v.t = "Float" -> Truncate(v)
      [] v.t = "Str" -> IntTextValue(v.s)

\* the exception of the try block of execute_loop, or "ok": the start bound
\* is converted first, the end bound only when that succeeded
LoopBoundsOutcome(sv, ev) ==
    IF IntOutcome(sv) # "ok" THEN IntOutcome(sv) ELSE IntOutcome(ev)

\* the frame with the index of the line after the `loop` line as its
\* return index
Frame_after_loop_line(start, iterator, end) ==
    [start |-> start + 1, iterator |-> iterator, end |-> end]

Frame(start, iterator, end) == [start |-> start, iterator |-> iterator, end |-> end]

execute_loop(st, tokens) ==
    IF Len(tokens) < 5
    THEN Say(st, "Error: Invalid loop command format. Use 'loop through start and end'", <<>>)
    ELSE IF Lower(tokens[2]) # kw_through \/ Lower(tokens[4]) # kw_and
    THEN Say(st, "Error: Invalid loop command format. Use 'loop through start and end'", <<>>)
    ELSE LET sv  == evaluate_expression(st.variables, tokens[3])
             ev  == evaluate_expression(st.variables, tokens[5])
             how == LoopBoundsOutcome(sv, ev)
         IN  IF how = "ValueError"
             THEN Say(st, "Error: Loop bounds must be integers, got",
                      tokens[3] \o <<" ","a","n","d"," ">> \o tokens[5])
             ELSE IF how = "TypeError"
             THEN Raise(st, "TypeError")
             ELSE Assign([st EXCEPT !.loop_stack =
                              Append(@, Frame(st.current_line, IntOf(sv), IntOf(ev)))],
                         name_i, IntV(IntOf(sv)))

\* the continue branch resuming at the `loop` line itself: after the
\* Runner's increment the cursor stands on the frame's return index
AdvanceTopFrame_onto_loop_line(st) ==
    LET top       == Len(st.loop_stack)
        loop_info == [st.loop_stack[top] EXCEPT !.iterator = @ + 1]
        st1       == Assign([st EXCEPT !.loop_stack[top] = loop_info],
                            name_i, IntV(loop_info.iterator))
    IN  IF loop_info.iterator <= loop_info.end
        THEN [st1 EXCEPT !.current_line = loop_info.start - 1]
        ELSE [st1 EXCEPT !.loop_stack = SubSeq(@, 1, top - 1)]

\* the test of the continue branch with < for <=: the frame is popped
\* when the incremented iterator reaches the end bound
AdvanceTopFrame_pops_at_end(st) ==
    LET top       == Len(st.loop_stack)
        loop_info == [st.loop_stack[top] EXCEPT !.iterator = @ + 1]
        st1       == Assign([st EXCEPT !.loop_stack[top] = loop_info],
                            name_i, IntV(loop_info.iterator))
    IN  IF loop_info.iterator < loop_info.end
        THEN [st1 EXCEPT !.current_line = loop_info.start]
        ELSE [st1 EXCEPT !.loop_stack = SubSeq(@, 1, top - 1)]

\* execute_end_loop working on the oldest frame, self.loop_stack[0], and
\* popping it with pop(0)
AdvanceTopFrame_oldest(st) ==
    LET loop_info == [st.loop_stack[1] EXCEPT !.iterator = @ + 1]
        st1       == Assign([st EXCEPT !.loop_stack[1] = loop_info],
                            name_i, IntV(loop_info.iterator))
    IN  IF loop_info.iterator <= loop_info.end
        THEN [st1 EXCEPT !.current_line = loop_info.start]
        ELSE [st1 EXCEPT !.loop_stack = Tail(@)]

\* execute_end_loop without `loop_info["iterator"] += 1`
AdvanceTopFrame_no_increment(st) ==
    LET top       == Len(st.loop_stack)
        loop_info == st.loop_stack[top]
        st1       == Assign(st, name_i, IntV(loop_info.iterator))
    IN  IF loop_info.iterator <= loop_info.end
        THEN [st1 EXCEPT !.current_line = loop_info.start]
        ELSE [st1 EXCEPT !.loop_stack = SubSeq(@, 1, top - 1)]

\* execute_end_loop counting in the variable `i` when it holds an integer:
\* loop_info["iterator"] = self.variables["i"] + 1
AdvanceTopFrame_counts_in_i(st) ==
    LET top       == Len(st.loop_stack)
        in_i      == Bound(st.variables, name_i) /\ st.variables[name_i].t = "Int"
        loop_info == [st.loop_stack[top] EXCEPT
                         !.iterator = IF in_i THEN st.variables[name_i].n + 1
                                      ELSE @ + 1]
        st1       == Assign([st EXCEPT !.loop_stack[top] = loop_info],
                            name_i, IntV(loop_info.iterator))
    IN  IF loop_info.iterator <= loop_info.end
        THEN [st1 EXCEPT !.current_line = loop_info.start]
        ELSE [st1 EXCEPT !.loop_stack = SubSeq(@, 1, top - 1)]

\* execute_end_loop on a stack that is not empty
AdvanceTopFrame(st) ==
    LET top       == Len(st.loop_stack)
        loop_info == [st.loop_stack[top] EXCEPT !.iterator = @ + 1]
        st1       == Assign([st EXCEPT !.loop_stack[top] = loop_info],
                            name_i, IntV(loop_info.iterator))
    IN  IF loop_info.iterator <= loop_info.end
        THEN [st1 EXCEPT !.current_line = loop_info.start]
        ELSE [st1 EXCEPT !.loop_stack = SubSeq(@, 1, top - 1)]

\* execute_end_loop without its test of the stack: self.loop_stack[-1] on an
\* empty list raises IndexError
execute_end_loop_unguarded(st) ==
    IF st.loop_stack = <<>> THEN Raise(st, "IndexError") ELSE AdvanceTopFrame(st)

execute_end_loop(st) ==
    IF st.loop_stack = <<>>
    THEN Say(st, "Error: 'end loop' without matching 'loop'", <<>>)
    ELSE AdvanceTopFrame(st)

MathNames == {<<"s","i","n">>, <<"c","o","s">>, <<"t","a","n">>, <<"s","q","r","t">>,
              <<"l","o","g">>, <<"f","l","o","o","r">>, <<"c","e","i","l">>}

execute_import(st, tokens) ==
    IF Len(tokens) < 2
    THEN Say(st, "Error: Invalid import command. Use 'import module'", <<>>)
    ELSE IF Lower(tokens[2]) = kw_math
    THEN Say([st EXCEPT !.variables = [f \in MathNames |-> BuiltinV(f)] @@ @],
             "Imported math module", <<>>)
    ELSE Say(st, "Error: Module not found", Lower(tokens[2]))

execute_if(st, tokens) == Say(st, "If statements are not yet implemented", <<>>)

show_help(st) == Say(st, "SudoSharp Language Help", <<>>)

----------------------------------------------------------------------------
(* Dispatch                                                                *)

\* the dispatch with `end` taken for `end loop` whatever follows it
CommandOf_end_alone(line) ==
    LET text   == Strip(line)
        tokens == tokenize(text)
        cmd    == Lower(tokens[1])
    IN  IF text = <<>> THEN "skip"
        ELSE IF StartsWith(text, <<"#">>) \/ IsDollarComment(text) THEN "skip"
        ELSE IF tokens = <<>> THEN "skip"
        ELSE IF cmd = kw_print THEN "print"
        ELSE IF cmd = kw_set THEN "set"
        ELSE IF cmd = kw_ask THEN "ask"
        ELSE IF cmd = kw_loop THEN "loop"
        ELSE IF cmd = kw_end THEN "end loop"
        ELSE IF cmd = kw_import THEN "import"
        ELSE IF cmd = kw_if THEN "if"
        ELSE IF cmd = kw_exit \/ cmd = kw_quit THEN "exit"
        ELSE IF cmd = kw_help THEN "help"
        ELSE "unknown"

\* the branch execute_line takes for a line: "skip" for an empty line, a
\* comment or a line without tokens, else the handler's name
CommandOf(line) ==
    LET text   == Strip(line)
        tokens == tokenize(text)
        cmd    == Lower(tokens[1])
    IN  IF text = <<>> THEN "skip"
        ELSE IF StartsWith(text, <<"#">>) \/ IsDollarComment(text) THEN "skip"
        ELSE IF tokens = <<>> THEN "skip"
        ELSE IF cmd = kw_print THEN "print"
        ELSE IF cmd = kw_set THEN "set"
        ELSE IF cmd = kw_ask THEN "ask"
        ELSE IF cmd = kw_loop THEN "loop"
        ELSE IF cmd = kw_end /\ Len(tokens) > 1 /\ Lower(tokens[2]) = kw_loop THEN "end loop"
        ELSE IF cmd = kw_import THEN "import"
        ELSE IF cmd = kw_if THEN "if"
        ELSE IF cmd = kw_exit \/ cmd = kw_quit THEN "exit"
        ELSE IF cmd = kw_help THEN "help"
        ELSE "unknown"

----------------------------------------------------------------------------
(* The interpreter                                                         *)

BuiltinFunctions ==
    [f \in {<<"a","b","s">>, <<"m","a","x">>, <<"m","i","n">>, <<"s","u","m">>,
            <<"r","o","u","n","d">>, <<"p","o","w">>, <<"i","n","t">>,
            <<"f","l","o","a","t">>, <<"s","t","r">>, <<"l","e","n">>} |-> BuiltinV(f)]

math_pi == FloatConst(<<"3",".","1","4","1","5","9","2","6","5","3","5","8","9","7","9","3">>, 3)

math_e == FloatConst(<<"2",".","7","1","8","2","8","1","8","2","8","4","5","9","0","4","5">>, 2)

\* self.variables after init_builtins
init_builtins ==
    (<<"p","i">> :> math_pi) @@ (<<"e">> :> math_e)
    @@ (<<"s","o","r","t">> :> BuiltinV(<<"s","o","r","t","e","d">>))
    @@ BuiltinFunctions

\* the interpreter state the handlers work on
State ==
    [variables |-> variables, loop_stack |-> loop_stack, running |-> running,
     current_line |-> current_line, stdin |-> stdin, stdout |-> stdout,
     fault |-> fault]

\* run_program's loop without its test of the running flag
LoopCondition_cursor_only(cursor, lines, run) == cursor < Len(lines)

\* the condition of run_program's while loop
LoopCondition(cursor, lines, run) == cursor < Len(lines) /\ run

\* program_lines[current_line]
CurrentLine == program_lines[current_line + 1]

\* the value of `i`, for the history: NoValue when `i` is unbound
NoValue == [t |-> "None", n |-> 0, d |-> 1, s |-> <<>>]

ValueOfI(env) == IF Bound(env, name_i) THEN env[name_i] ELSE NoValue

\* the cursor after a line when the increment is skipped in the rounds
\* whose handler moved the cursor
CursorAfter_unless_jumped(st) ==
    IF st.fault # "none" \/ st.current_line # current_line
    THEN st.current_line
    ELSE st.current_line + 1

\* the cursor that run_program leaves after a line: the handler's cursor
\* plus one, or the handler's cursor when an exception left the loop
CursorAfter(st) == IF st.fault # "none" THEN st.current_line ELSE st.current_line + 1

----------------------------------------------------------------------------
(* Programs and inputs of the model                                        *)

RECURSIVE Join(_, _)
Join(parts, sep) ==
    IF parts = <<>> THEN <<>>
    ELSE IF Len(parts) = 1 THEN parts[1]
    ELSE parts[1] \o sep \o Join(Tail(parts), sep)

\* a line from its words
Words(ws) == Join(ws, <<" ">>)

\* a program text from its lines
Text(lines) == Join(lines, <<"\n">>)

\* the largest literal loop bound of the generated loop programs
MaxBound == 3

\* the largest literal bound of the generated nested loops
MaxNestBound == 2

\* the number of lines a run of the model may execute: more than any run of
\* the programs below takes
MaxSteps == 44

BoundValues == (-1)..MaxBound

NestValues == 0..MaxNestBound

LoopLine(a, b) == Words(<<kw_loop, kw_through, a, kw_and, b>>)

EndLoopLine == Words(<<kw_end, kw_loop>>)

\* the lines a generated loop body is made of: 'print $i$' | 'set x to i plus 1' | 'set i to 7' | 'foo bar' | 'ask for i' | '# note' | ''
BodyLines ==
    { <<"p","r","i","n","t"," ","$","i","$">>,
      <<"s","e","t"," ","x"," ","t","o"," ","i"," ","p","l","u","s"," ","1">>,
      <<"s","e","t"," ","i"," ","t","o"," ","7">>,
      <<"f","o","o"," ","b","a","r">>,
      <<"a","s","k"," ","f","o","r"," ","i">>,
      <<"#"," ","n","o","t","e">>,
      <<>> }

\* the bodies of the generated loops: one line, or two
Bodies ==
    {<<b>> : b \in BodyLines} \cup
    {<<b, <<"p","r","i","n","t"," ","$","i","$">>>> : b \in {<<"s","e","t"," ","i"," ","t","o"," ","7">>, <<"a","s","k"," ","f","o","r"," ","i">>, <<"f","o","o"," ","b","a","r">>}}

\* loop through S and E / body / end loop / print $i$
SimpleLoopPrograms ==
    {Text(<<LoopLine(IntToStr(a), IntToStr(b))>> \o body
          \o <<EndLoopLine, <<"p","r","i","n","t"," ","$","i","$">>>>) :
        a \in BoundValues, b \in BoundValues, body \in Bodies}

\* an outer loop around an inner loop
NestedLoopPrograms ==
    {Text(<<LoopLine(IntToStr(a), IntToStr(b)), LoopLine(IntToStr(c), IntToStr(d))>>
          \o body \o <<EndLoopLine, EndLoopLine>>) :
        a \in NestValues, b \in NestValues, c \in NestValues, d \in NestValues,
        body \in {<<<<"p","r","i","n","t"," ","$","i","$">>>>, <<<<"s","e","t"," ","i"," ","t","o"," ","7">>>>, <<<<"a","s","k"," ","f","o","r"," ","i">>>>}}

\* the operands of the generated `set` lines
OperandTokens ==
    { <<"2">>,
      <<"-","4">>,
      <<"0">>,
      <<"2",".","5">>,
      <<"0",".","0">>,
      <<"y","e","s">>,
      <<"\"","a","\"">>,
      <<"a","b","s">>,
      <<"x">> }

\* the operators of the generated `set` lines
OperatorWords ==
    { <<<<"p","l","u","s">>>>,
      <<<<"m","i","n","u","s">>>>,
      <<<<"t","i","m","e","s">>>>,
      <<<<"d","i","v","i","d","e","d">>, <<"b","y">>>>,
      <<<<"P","l","u","s">>>>,
      <<<<"m","o","d">>>>,
      <<<<"d","i","v","i","d","e","d">>, <<"a","t">>>> }

\* set x to 5 / set x to L OP R / set y to L OP R / print $x$ $y$
SetPrograms ==
    {Text(<<<<"s","e","t"," ","x"," ","t","o"," ","5">>,
            Words(<<kw_set, <<"x">>, kw_to, l>> \o op \o <<r>>),
            Words(<<kw_set, <<"y">>, kw_to, l>> \o op \o <<r>>),
            <<"p","r","i","n","t"," ","$","x","$"," ","$","y","$">>>>) :
        l \in OperandTokens, op \in OperatorWords, r \in OperandTokens}

\* the bounds of the generated `loop` lines with arbitrary bounds
BoundTokens ==
    { <<"1">>,
      <<"2">>,
      <<"1",".","5">>,
      <<"2",".","0">>,
      <<"-","1",".","5">>,
      <<"y","e","s">>,
      <<"\"","a","b","c","\"">>,
      <<"\"","2","\"">>,
      <<"a","b","s">>,
      <<"p","i">>,
      <<"n","o","p","e">> }

\* loop through A and B / print $i$ / end loop / print $i$
BoundPrograms ==
    {Text(<<LoopLine(a, b), <<"p","r","i","n","t"," ","$","i","$">>, EndLoopLine, <<"p","r","i","n","t"," ","$","i","$">>>>) :
        a \in BoundTokens, b \in BoundTokens}

\* programs written out line by line
OtherPrograms ==
    { Text(<<<<"p","r","i","n","t"," ","\"","s","t","a","r","t","\"">>, <<"e","n","d"," ","l","o","o","p">>, <<"p","r","i","n","t"," ","$","i","$">>>>),
      Text(<<<<"s","e","t"," ","i"," ","t","o"," ","4">>, <<"E","n","d"," "," ","L","O","O","P">>, <<"p","r","i","n","t"," ","$","i","$">>, <<"e","n","d"," ","l","o","o","p">>>>),
      Text(<<<<"l","o","o","p"," ","t","h","r","o","u","g","h"," ","1"," ","a","n","d"," ","3">>, <<"p","r","i","n","t"," ","$","i","$">>, <<"e","x","i","t">>, <<"e","n","d"," ","l","o","o","p">>, <<"p","r","i","n","t"," ","\"","a","f","t","e","r","\"">>>>),
      Text(<<<<"l","o","o","p"," ","t","h","r","o","u","g","h"," ","1"," ","a","n","d"," ","2">>, <<"p","r","i","n","t"," ","$","i","$">>, <<"e","n","d"," ","l","o","o","p">>, <<"Q","U","I","T">>, <<"p","r","i","n","t"," ","\"","a","f","t","e","r","\"">>>>),
      Text(<<<<"f","o","o"," ","b","a","r">>, <<"p","r","i","n","t"," ","\"","n","e","x","t","\"">>>>),
      Text(<<<<"e","n","d">>, <<"e","n","d"," ","l","o","o","p","s">>, <<"e","n","d","l","o","o","p">>, <<"p","r","i","n","t"," ","\"","n","e","x","t","\"">>>>),
      Text(<<<<"$","p","r","i","n","t"," ","h","e","l","l","o">>, <<"$"," ","a"," ","c","o","m","m","e","n","t">>, <<" "," ","#"," ","a","n","o","t","h","e","r">>, <<>>, <<"p","r","i","n","t">>>>),
      Text(<<<<"i","m","p","o","r","t"," ","m","a","t","h">>, <<"i","m","p","o","r","t"," ","M","a","t","h">>, <<"i","m","p","o","r","t"," ","o","s">>, <<"i","m","p","o","r","t">>, <<"p","r","i","n","t"," ","$","s","q","r","t","$">>>>),
      Text(<<<<"i","f"," ","x"," ","i","s"," ","1">>, <<"h","e","l","p">>, <<"H","E","L","P"," ","m","e">>, <<"p","r","i","n","t"," ","p","i">>>>),
      Text(<<<<"s","e","t"," ","x">>, <<"s","e","t"," ","x"," ","i","s"," ","5">>, <<"s","e","t"," ","x"," ","t","o"," ","1"," ","2">>, <<"s","e","t"," ","x"," ","t","o"," ","\"","a"," ","b","\"">>, <<"p","r","i","n","t"," ","$","x","$"," ","a","n","d"," ","$","y","$">>>>),
      Text(<<<<"a","s","k">>, <<"a","s","k"," ","x">>, <<"a","s","k"," ","f","o","r">>, <<"a","s","k"," ","f","o","r"," ","n","a","m","e">>, <<"p","r","i","n","t"," ","$","n","a","m","e","$">>>>),
      Text(<<<<"a","s","k"," ","f","o","r"," ","a">>, <<"a","s","k"," ","f","o","r"," ","b">>, <<"s","e","t"," ","c"," ","t","o"," ","a"," ","p","l","u","s"," ","b">>, <<"p","r","i","n","t"," ","$","c","$">>>>),
      Text(<<<<"l","o","o","p">>, <<"l","o","o","p"," ","t","h","r","o","u","g","h"," ","1">>, <<"l","o","o","p"," ","o","v","e","r"," ","1"," ","a","n","d"," ","2">>, <<"l","o","o","p"," ","t","h","r","o","u","g","h"," ","1"," ","o","r"," ","2">>, <<"p","r","i","n","t"," ","$","i","$">>>>),
      Text(<<<<"l","o","o","p"," ","t","h","r","o","u","g","h"," ","1"," ","a","n","d"," ","2">>, <<"l","o","o","p"," ","t","h","r","o","u","g","h"," ","a","b","s"," ","a","n","d"," ","2">>, <<"e","n","d"," ","l","o","o","p">>, <<"p","r","i","n","t"," ","\"","a","f","t","e","r","\"">>>>),
      Text(<<<<"s","e","t"," ","n"," ","t","o"," ","2">>, <<"l","o","o","p"," ","t","h","r","o","u","g","h"," ","1"," ","a","n","d"," ","n">>, <<"s","e","t"," ","n"," ","t","o"," ","5">>, <<"e","n","d"," ","l","o","o","p">>, <<"p","r","i","n","t"," ","$","i","$">>>>),
      Text(<<<<"l","o","o","p"," ","t","h","r","o","u","g","h"," ","1"," ","a","n","d"," ","2">>, <<"p","r","i","n","t"," ","$","i","$">>>>),
      Text(<<<<"l","o","o","p"," ","t","h","r","o","u","g","h"," ","2"," ","a","n","d"," ","3">>, <<"p","r","i","n","t"," ","$","i","$">>, <<"e","n","d"," ","l","o","o","p">>, <<"e","n","d"," ","l","o","o","p">>, <<"p","r","i","n","t"," ","$","i","$">>>>),
      Text(<<<<"s","e","t"," ","p","i"," ","t","o"," ","3">>, <<"s","e","t"," ","a","b","s"," ","t","o"," ","\"","x","\"">>, <<"p","r","i","n","t"," ","$","a","b","s","$","$","p","i","$">>, <<"p","r","i","n","t"," ","\"","l","i","t","\"">>, <<"p","r","i","n","t"," ","a","b","s">>>>),
      Text(<<<<>>, <<"s","e","t"," ","x"," ","t","o"," ","1",".","5"," ","p","l","u","s"," ","2">>, <<"P","r","i","n","t"," "," "," ","$","x","$"," "," ">>, <<"p","r","i","n","t","e","r"," ","x">>, <<"p","r","i","n","t"," ","y","e","s">>>>),
      Text(<<<<"s","e","t"," ","x"," ","t","o"," ","$","i","$">>, <<"s","e","t"," ","i"," ","t","o"," ","2">>, <<"s","e","t"," ","y"," ","t","o"," ","$","i","$"," ","p","l","u","s"," ","\"","$","i","$","\"">>, <<"p","r","i","n","t"," ","$","y","$"," ","$","x","$">>>>),
      Text(<<<<"e","x","i","t">>>>),
      Text(<<<<"q","u","i","t"," ","n","o","w">>, <<"p","r","i","n","t"," ","\"","n","e","v","e","r","\"">>>>),
      Text(<<<<"s","e","t"," ","n","a","m","e"," ","t","o"," ","\"","A","d","a","\"">>, <<"p","r","i","n","t"," ","$","n","a","m","e","$">>, <<"p","r","i","n","t"," ","$","n","o","b","o","d","y","$">>, <<"p","r","i","n","t"," ","$","n","a","m","e","$","$","n","o","b","o","d","y","$"," ","$","n","a","m","e","$">>>>),
      Text(<<<<"l","o","o","p"," ","t","h","r","o","u","g","h"," ","1"," ","a","n","d"," ","2">>, <<"l","o","o","p"," ","t","h","r","o","u","g","h"," ","1"," ","a","n","d"," ","2">>, <<"l","o","o","p"," ","t","h","r","o","u","g","h"," ","0"," ","a","n","d"," ","1">>, <<"p","r","i","n","t"," ","$","i","$">>, <<"e","n","d"," ","l","o","o","p">>, <<"e","n","d"," ","l","o","o","p">>>>) }

Programs ==
    SimpleLoopPrograms \cup NestedLoopPrograms \cup SetPrograms
    \cup BoundPrograms \cup OtherPrograms

\* what the input source holds: nothing (input() is at end of input), or
\* lines that convert to an int, a float and a string
Inputs ==
    { <<>>,
      <<<<"4","2">>, <<"4",".","2">>, <<"h","i">>>> }

----------------------------------------------------------------------------
(* The state machine: construction, run_program, one step per line         *)

\* __init__: the state after construction, before run_program
Init ==
    /\ pc = "constructed"
    /\ program_lines = <<>>
    /\ current_line = 0
    /\ running = TRUE
    /\ variables = init_builtins
    /\ loop_stack = <<>>
    /\ stdin \in Inputs
    /\ stdout = <<>>
    /\ fault = "none"
    /\ history = <<>>

\* run_program(program), up to its loop
RunProgram(program) ==
    /\ pc = "constructed"
    /\ program_lines' = SplitLines(Strip(program))
    /\ current_line' = 0
    /\ pc' = "running"
    /\ UNCHANGED <<running, variables, loop_stack, stdin, stdout, fault, history>>

\* run_program's loop takes another round, on a line execute_line
\* dispatches to cmd
Fetch(cmd) ==
    /\ pc = "running"
    /\ Len(history) < MaxSteps
    /\ LoopCondition(current_line, program_lines, running)
    /\ CommandOf(CurrentLine) = cmd

\* tokens = self.tokenize(line), of the stripped line
Tokens == tokenize(Strip(CurrentLine))

\* the rest of the round once the handler has left the state st:
\* current_line += 1, unless an exception left the loop
Finish(cmd, st) ==
    /\ variables' = st.variables
    /\ loop_stack' = st.loop_stack
    /\ running' = st.running
    /\ stdin' = st.stdin
    /\ stdout' = st.stdout
    /\ fault' = st.fault
    /\ current_line' = CursorAfter(st)
    /\ pc' = IF st.fault # "none" THEN "raised" ELSE "running"
    /\ history' = Append(history,
           [line |-> current_line, cmd |-> cmd, i |-> ValueOfI(variables),
            next |-> CursorAfter(st), depth |-> Len(st.loop_stack)])
    /\ UNCHANGED program_lines

\* an empty line, a comment, a line without tokens: execute_line returns
StepSkip ==
    /\ Fetch("skip")
    /\ \E st \in {State} : Finish("skip", st)

StepPrint ==
    /\ Fetch("print")
    /\ \E tokens \in {Tokens} :
       \E st \in {execute_print(State, tokens)} : Finish("print", st)

StepSet ==
    /\ Fetch("set")
    /\ \E tokens \in {Tokens} :
       \E st \in {execute_set(State, tokens)} : Finish("set", st)

StepAsk ==
    /\ Fetch("ask")
    /\ \E tokens \in {Tokens} :
       \E st \in {execute_ask(State, tokens)} : Finish("ask", st)

StepLoop ==
    /\ Fetch("loop")
    /\ \E tokens \in {Tokens} :
       \E st \in {execute_loop(State, tokens)} : Finish("loop", st)

StepEndLoop ==
    /\ Fetch("end loop")
    /\ \E st \in {execute_end_loop(State)} : Finish("end loop", st)

StepImport ==
    /\ Fetch("import")
    /\ \E tokens \in {Tokens} :
       \E st \in {execute_import(State, tokens)} : Finish("import", st)

StepIf ==
    /\ Fetch("if")
    /\ \E tokens \in {Tokens} :
       \E st \in {execute_if(State, tokens)} : Finish("if", st)

\* exit / quit: self.running = False
StepExit ==
    /\ Fetch("exit")
    /\ \E st \in {[State EXCEPT !.running = FALSE]} : Finish("exit", st)

StepHelp ==
    /\ Fetch("help")
    /\ \E st \in {show_help(State)} : Finish("help", st)

\* no handler: the unknown-command message
StepUnknown ==
    /\ Fetch("unknown")
    /\ \E tokens \in {Tokens} :
       \E st \in {Say(State, "Error: Unknown command", Lower(tokens[1]))} :
           Finish("unknown", st)

\* run_program returns: the loop condition is false
Return ==
    /\ pc = "running"
    /\ ~LoopCondition(current_line, program_lines, running)
    /\ pc' = "returned"
    /\ UNCHANGED <<program_lines, current_line, running, variables, loop_stack,
                   stdin, stdout, fault, history>>

Load == \E program \in Programs : RunProgram(program)

Next ==
    \/ Load
    \/ StepSkip
    \/ StepPrint
    \/ StepSet
    \/ StepAsk
    \/ StepLoop
    \/ StepEndLoop
    \/ StepImport
    \/ StepIf
    \/ StepExit
    \/ StepHelp
    \/ StepUnknown
    \/ Return

Spec == Init /\ [][Next]_vars

\* a round of run_program's loop, or its return
Round ==
    \/ StepSkip
    \/ StepPrint
    \/ StepSet
    \/ StepAsk
    \/ StepLoop
    \/ StepEndLoop
    \/ StepImport
    \/ StepIf
    \/ StepExit
    \/ StepHelp
    \/ StepUnknown
    \/ Return

\* ENABLED <<Round>>_vars, written out: run_program is in its loop, and
\* either the loop condition is false (Return) or a line may be executed;
\* both change pc or history
CanRound ==
    /\ pc = "running"
    /\ \/ ~LoopCondition(current_line, program_lines, running)
       \/ Len(history) < MaxSteps

\* run_program's loop keeps going: once called, a round that can be taken
\* is taken.  This is WF_vars(Round) with ENABLED <<Round>>_vars written
\* as CanRound
FairSpec == Spec /\ ([]<>~CanRound \/ []<><<Round>>_vars)

----------------------------------------------------------------------------
(* Properties                                                              *)

Last(seq) == seq[Len(seq)]

\* the 1-based positions of the history entries for the 0-based line k
RunsOf(k) == {j \in 1..Len(history) : history[j].line = k}

\* the next round executes a line that dispatches to cmd
About(cmd) ==
    /\ pc = "running"
    /\ current_line < Len(program_lines)
    /\ running
    /\ CommandOf(CurrentLine) = cmd

\* a handler reported msg and did nothing else: the Environment, the loop
\* stack and the running flag are as before, no exception left it, and the
\* Runner stands on the next line
OnlyReports(msg) ==
    /\ variables' = variables
    /\ loop_stack' = loop_stack
    /\ running' = running
    /\ fault' = "none"
    /\ pc' = "running"
    /\ current_line' = current_line + 1
    /\ Len(stdout') = Len(stdout) + 1
    /\ Last(stdout').msg = msg

(* C3: no exception leaves run_program: every line that raises is caught   *)
(* at the line boundary, and the run only ends by exit / quit or by the    *)
(* cursor passing the last line.                                           *)
C3_NoFaultEscapes ==
    /\ fault = "none"
    /\ pc # "raised"
    /\ pc = "returned" => (~running \/ current_line >= Len(program_lines))

(* C4: `end loop` on an empty loop stack reports the unmatched-end-loop     *)
(* error and changes neither the Environment, the loop stack nor the       *)
(* running flag; the cursor is not reset, the Runner advances by one.      *)
C4_UnmatchedEndLoop ==
    [][(About("end loop") /\ loop_stack = <<>>)
         => OnlyReports("Error: 'end loop' without matching 'loop'")]_vars

\* an `end loop` was executed on an empty stack, with `i` bound
C4_Witness ==
    /\ history # <<>>
    /\ Last(history).cmd = "end loop"
    /\ Last(history).depth = 0
    /\ stdout # <<>>
    /\ Last(stdout).msg = "Error: 'end loop' without matching 'loop'"
    /\ Bound(variables, name_i)

(* C8: an executed exit / quit clears the running flag, and once the flag   *)
(* is cleared no line is executed and neither the Environment nor the      *)
(* loop stack changes.                                                     *)
C8_ExitStops ==
    [][/\ About("exit") => ~running'
       /\ ~running => /\ ~running'
                      /\ history' = history
                      /\ variables' = variables
                      /\ loop_stack' = loop_stack
                      /\ stdout' = stdout]_vars

\* run_program returned after an exit inside a loop body that had
\* iterations left, with lines after the exit never executed
C8_Witness ==
    /\ pc = "returned"
    /\ ~running
    /\ Last(history).cmd = "exit"
    /\ loop_stack # <<>>
    /\ Last(loop_stack).iterator < Last(loop_stack).end
    /\ current_line < Len(program_lines)

RecognizedCommands ==
    {kw_print, kw_set, kw_ask, kw_loop, kw_import, kw_if, kw_exit, kw_quit, kw_help}

\* the next line has a first token, and it is no recognized command
\* (`end` counts as recognized only when `loop` follows it)
FirstTokenUnrecognized ==
    /\ pc = "running" /\ current_line < Len(program_lines) /\ running
    /\ Strip(CurrentLine) # <<>>
    /\ Strip(CurrentLine)[1] \notin {"#", "$"}
    /\ Lower(Tokens[1]) \notin RecognizedCommands
    /\ ~(/\ Lower(Tokens[1]) = kw_end
         /\ Len(Tokens) > 1
         /\ Lower(Tokens[2]) = kw_loop)

(* C9: a line whose first token is not a recognized command reports the     *)
(* unknown-command error, changes neither the Environment, the loop stack  *)
(* nor the running flag, and the Runner advances to the next line.         *)
C9_UnknownCommand ==
    [][FirstTokenUnrecognized
         => /\ OnlyReports("Error: Unknown command")
            /\ Last(stdout').text = Lower(Tokens[1])]_vars

\* `end` without `loop` was reported as an unknown command and the line
\* after it was executed
C9_Witness ==
    /\ Len(history) >= 2
    /\ history[Len(history) - 1].cmd = "unknown"
    /\ Lower(tokenize(Strip(program_lines[history[Len(history) - 1].line + 1]))[1]) = kw_end
    /\ Last(history).line = history[Len(history) - 1].line + 1

\* the command of the program's line at the 1-based position p
CommandAt(p) == CommandOf(program_lines[p])

TokensAt(p) == tokenize(Strip(program_lines[p]))

\* the line at position p is `loop through S and E` with integer literals
\* S <= E
IsConstantLoop(p) ==
    /\ CommandAt(p) = "loop"
    /\ Len(TokensAt(p)) = 5
    /\ Lower(TokensAt(p)[2]) = kw_through
    /\ Lower(TokensAt(p)[4]) = kw_and
    /\ IntTextOK(TokensAt(p)[3])
    /\ IntTextOK(TokensAt(p)[5])
    /\ IntTextValue(TokensAt(p)[3]) <= IntTextValue(TokensAt(p)[5])

StartOf(p) == IntTextValue(TokensAt(p)[3])

\* the number of iterations of the constant loop at position p
TripsOf(p) == IntTextValue(TokensAt(p)[5]) - StartOf(p) + 1

\* the lines at the positions p..q have no loop, end loop or exit line
PlainLines(p, q) == \A k \in p..q : CommandAt(k) \notin {"loop", "end loop", "exit"}

\* the position of the first `end loop` after position p, 0 when none
EndLoopAfter(p) ==
    LET ends == {q \in (p + 1)..Len(program_lines) : CommandAt(q) = "end loop"}
    IN  IF ends = {} THEN 0 ELSE CHOOSE q \in ends : \A r \in ends : q <= r

\* the program is `loop through S and E` / body / `end loop` / rest
IsSimpleLoopProgram ==
    /\ pc # "constructed"
    /\ Len(program_lines) >= 3
    /\ IsConstantLoop(1)
    /\ EndLoopAfter(1) > 2
    /\ PlainLines(2, EndLoopAfter(1) - 1)

\* how many of the first j rounds executed the 0-based line k
RankOf(k, j) == Cardinality({m \in RunsOf(k) : m <= j})

Ended == pc \in {"returned", "raised"}

(* C1: a program `loop through S and E` / body / `end loop` with integer    *)
(* S <= E and a body without loop, end loop and exit lines executes the    *)
(* body exactly E-S+1 times, with i = S, S+1, ..., E in that order at the  *)
(* successive body executions, and then continues at the line after        *)
(* `end loop` with the loop stack empty.                                   *)
C1_SimpleLoop ==
    IsSimpleLoopProgram =>
        LET e == EndLoopAfter(1) - 1
        IN  /\ \A j \in RunsOf(1) :
                  /\ RankOf(1, j) <= TripsOf(1)
                  /\ history[j].i = IntV(StartOf(1) + RankOf(1, j) - 1)
            /\ Ended =>
                  /\ \A k \in 1..e : Cardinality(RunsOf(k)) = TripsOf(1)
                  /\ \E j \in RunsOf(e) :
                        /\ history[j].next = e + 1
                        /\ history[j].depth = 0
                        /\ \A m \in (j + 1)..Len(history) : history[m].line > e

\* C1 for the runs that no exception leaves: the body runs E-S+1 times, so
\* the runs that break C1 are those of C3 alone
C1_SimpleLoopUnlessRaised == fault = "none" => C1_SimpleLoop

\* a loop through 1 and 3 ran to its end and the line after it was executed
C1_Ran ==
    /\ IsSimpleLoopProgram
    /\ pc = "returned"
    /\ StartOf(1) = 1
    /\ TripsOf(1) = 3
    /\ Cardinality(RunsOf(1)) = 3
    /\ Last(history).line = EndLoopAfter(1)

\* the program is loop S1 E1 / loop S2 E2 / body / end loop / end loop with
\* plain lines around the inner loop
IsNestedLoopProgram ==
    /\ pc # "constructed"
    /\ IsConstantLoop(1)
    /\ \E p \in 2..Len(program_lines) :
          /\ CommandAt(p) = "loop"
          /\ PlainLines(2, p - 1)
          /\ IsConstantLoop(p)
          /\ EndLoopAfter(p) > p + 1
          /\ PlainLines(p + 1, EndLoopAfter(p) - 1)
          /\ EndLoopAfter(EndLoopAfter(p)) > 0
          /\ PlainLines(EndLoopAfter(p) + 1, EndLoopAfter(EndLoopAfter(p)) - 1)

\* the position of the inner `loop` line of a nested loop program
InnerLoop == CHOOSE p \in 2..Len(program_lines) : CommandAt(p) = "loop" /\ PlainLines(2, p - 1)

(* C2: with an inner loop S2..E2 inside an outer loop S1..E1 (constant      *)
(* integer bounds, S1 <= E1, S2 <= E2) the inner body executes exactly     *)
(* (E1-S1+1)*(E2-S2+1) times, and at every execution of the inner body i   *)
(* is the iterator of the inner frame, not of the outer one.               *)
C2_NestedLoops ==
    IsNestedLoopProgram =>
        /\ \A j \in RunsOf(InnerLoop) :
              /\ RankOf(InnerLoop, j) <= TripsOf(1) * TripsOf(InnerLoop)
              /\ history[j].i =
                    IntV(StartOf(InnerLoop) + ((RankOf(InnerLoop, j) - 1) % TripsOf(InnerLoop)))
        /\ (pc = "running" /\ running /\ current_line = InnerLoop) =>
              /\ Len(loop_stack) = 2
              /\ ValueOfI(variables) = IntV(loop_stack[2].iterator)
        /\ Ended => Cardinality(RunsOf(InnerLoop)) = TripsOf(1) * TripsOf(InnerLoop)

\* C2 for the runs that no exception leaves
C2_NestedLoopsUnlessRaised == fault = "none" => C2_NestedLoops

\* 1..2 inside 1..2 ran to its end: 4 executions of the inner body, the
\* last two with i = 1, 2 while the outer iterator was 2
C2_Ran ==
    /\ IsNestedLoopProgram
    /\ pc = "returned"
    /\ StartOf(1) = 1 /\ TripsOf(1) = 2
    /\ StartOf(InnerLoop) = 1 /\ TripsOf(InnerLoop) = 2
    /\ Cardinality(RunsOf(InnerLoop)) = 4
    /\ loop_stack = <<>>

\* the next line is `loop through A and B`
IsLoopForm ==
    /\ About("loop")
    /\ Len(Tokens) >= 5
    /\ Lower(Tokens[2]) = kw_through
    /\ Lower(Tokens[4]) = kw_and

\* what the bounds of the next `loop` line evaluate to
StartBound == evaluate_expression(variables, Tokens[3])

EndBound == evaluate_expression(variables, Tokens[5])

(* C5: in `loop through A and B`, when a bound evaluates to a value that    *)
(* is not an Integer (a Float, a Boolean, a String, a built-in function)   *)
(* the command reports an error and the loop is not entered: no frame is   *)
(* pushed and `i` is not changed.                                          *)
C5_NonIntegerBounds ==
    [][(IsLoopForm /\ (StartBound.t # "Int" \/ EndBound.t # "Int"))
         => /\ loop_stack' = loop_stack
            /\ ValueOfI(variables') = ValueOfI(variables)
            /\ Len(stdout') = Len(stdout) + 1]_vars

\* the part of C5 the code meets: a bound that int() rejects with ValueError
\* (a String that is no integer literal) reports the error, no frame is
\* pushed and `i` is not changed
C5_RejectedText ==
    [][(/\ IsLoopForm
        /\ \/ StartBound.t = "Str" /\ ~IntTextOK(StartBound.s)
           \/ /\ StartBound.t \in {"Int", "Bool", "Float"}
              /\ EndBound.t = "Str" /\ ~IntTextOK(EndBound.s))
         => OnlyReports("Error: Loop bounds must be integers, got")]_vars

\* the value tokens of the next `set X to ...` line
ValueTokens == SubSeq(Tokens, 4, Len(Tokens))

\* the next line is `set X to L OP R`, OP one of plus, minus, times
IsSetOperationForm ==
    /\ About("set")
    /\ Len(Tokens) = 6
    /\ Lower(Tokens[3]) = kw_to
    /\ Lower(ValueTokens[2]) \in {kw_plus, kw_minus, kw_times}

\* the next line is `set X to L divided by R`
IsSetDivisionForm ==
    /\ About("set")
    /\ Len(Tokens) = 7
    /\ Lower(Tokens[3]) = kw_to
    /\ Lower(ValueTokens[2]) = kw_divided
    /\ Lower(ValueTokens[3]) = kw_by

\* what the operands of the next arithmetic `set` line evaluate to
LeftOperand == evaluate_expression(variables, ValueTokens[1])

RightOperand == evaluate_expression(variables, ValueTokens[Len(ValueTokens)])

IsNumber(v) == v.t \in {"Int", "Float"}

(* C6: in `set X to L OP R` (plus, minus, times) and `set X to L divided    *)
(* by R` an operand that evaluates to a Boolean, a String or a built-in    *)
(* function makes the command report a type error and abort: X keeps its   *)
(* prior value or stays unbound.                                           *)
C6_OperandTypes ==
    [][((IsSetOperationForm \/ IsSetDivisionForm)
          /\ (~IsNumber(LeftOperand) \/ ~IsNumber(RightOperand)))
         => /\ variables' = variables
            /\ Len(stdout') = Len(stdout) + 1
            /\ fault' = "none"]_vars

\* the part of C6 the code meets: a String or built-in function operand
C6_StringOrBuiltinOperand ==
    [][((IsSetOperationForm \/ IsSetDivisionForm)
          /\ {LeftOperand.t, RightOperand.t} \cap {"Str", "Builtin"} # {})
         => /\ variables' = variables
            /\ Len(stdout') = Len(stdout) + 1
            /\ fault' = "none"]_vars

(* C7: `set X to A divided by D` with a numeric A and D evaluating to the   *)
(* Integer 0 or the Float 0.0 reports the division-by-zero error, raises   *)
(* nothing and changes no variable (X keeps its value or stays unbound),   *)
(* nor the loop stack, nor the running flag.                               *)
C7_DivisionByZero ==
    [][(/\ IsSetDivisionForm
        /\ IsNumber(LeftOperand)
        /\ IsNumber(RightOperand)
        /\ RightOperand.n = 0)
         => OnlyReports("Error: Division by zero")]_vars

\* 2.5 was divided by 0.0 into x, bound to 5 before, and into the unbound y:
\* two reports, x still 5, y still unbound
C7_Witness ==
    /\ Len(history) = 3
    /\ Len(stdout) = 2
    /\ stdout[1].msg = "Error: Division by zero"
    /\ stdout[2].msg = "Error: Division by zero"
    /\ TokensAt(3)[4] = <<"2", ".", "5">>
    /\ TokensAt(3)[7] = <<"0", ".", "0">>
    /\ variables[<<"x">>] = IntV(5)
    /\ ~Bound(variables, <<"y">>)

\* the type of the result of an operation on the numbers l and r
Promoted(l, r) == IF l.t = "Float" \/ r.t = "Float" THEN "Float" ELSE "Int"

\* the number v is num / den
IsQuotient(v, num, den) == v.n * den = num * Den(v)

\* variables' is variables with X bound to a number of type t whose value
\* is num / den
BindsQuotient(t, num, den) ==
    /\ Bound(variables', Tokens[2])
    /\ variables'[Tokens[2]].t = t
    /\ variables'[Tokens[2]].s = <<>>
    /\ IsQuotient(variables'[Tokens[2]], num, den)
    /\ \A name \in DOMAIN variables' \ {Tokens[2]} :
          Bound(variables, name) /\ variables'[name] = variables[name]
    /\ fault' = "none"
    /\ stdout' = stdout

\* both operands of the next arithmetic `set` line are Integers or Floats
\* whose digits the model carries
HasNumberOperands ==
    /\ IsNumber(LeftOperand) /\ LeftOperand.s = <<>>
    /\ IsNumber(RightOperand) /\ RightOperand.s = <<>>

(* C10: `set X to A plus B` with A and B Integer or Float binds X to A+B,   *)
(* a Float when either operand is a Float and an Integer when both are     *)
(* Integers; minus and times promote the same way, and `divided by`        *)
(* yields a Float even when both operands are Integers.                    *)
C10_Arithmetic ==
    [][/\ (IsSetOperationForm /\ HasNumberOperands)
          => LET l  == LeftOperand
                 r  == RightOperand
                 op == Lower(ValueTokens[2])
             IN  /\ op = kw_plus =>
                       BindsQuotient(Promoted(l, r),
                                     l.n * Den(r) + r.n * Den(l), Den(l) * Den(r))
                 /\ op = kw_minus =>
                       BindsQuotient(Promoted(l, r),
                                     l.n * Den(r) - r.n * Den(l), Den(l) * Den(r))
                 /\ op = kw_times =>
                       BindsQuotient(Promoted(l, r), l.n * r.n, Den(l) * Den(r))
       /\ (IsSetDivisionForm /\ HasNumberOperands /\ RightOperand.n # 0)
          => BindsQuotient("Float", LeftOperand.n * Den(RightOperand),
                           Den(LeftOperand) * RightOperand.n)]_vars

\* x was bound to 2 plus 2.5, the Float 4.5, and printed as such; y holds
\* the same
C10_Witness ==
    /\ pc = "returned"
    /\ Len(program_lines) = 4
    /\ TokensAt(2) = <<kw_set, <<"x">>, kw_to, <<"2">>, kw_plus, <<"2", ".", "5">>>>
    /\ variables[<<"x">>] = FloatV(9, 2)
    /\ variables[<<"y">>] = FloatV(9, 2)
    /\ Last(stdout).text = <<"4", ".", "5", " ", "4", ".", "5">>

\* the marker $name$
Marker(name) == <<"$">> \o name \o <<"$">>

\* what a marker $name$ is printed as: str of the value of a bound name, the
\* marker itself for an unbound one
Shown(name) == IF name \in DOMAIN variables THEN PyStr(variables[name]) ELSE Marker(name)

\* the names of the markers the programs print
MarkerNames ==
    {<<"n","a","m","e">>, <<"n","o","b","o","d","y">>, <<"i">>, <<"x">>, <<"y">>,
     <<"a","b","s">>, <<"p","i">>}

\* text without its first Len(name) + 2 characters: what follows the marker
\* of name that text starts with
AfterMarker(text, name) == SubSeq(text, Len(name) + 3, Len(text))

\* what stands between two markers of a print line
Separators == {<<>>, <<" ">>}

\* the step prints text and does nothing else
OnlyPrints(text) ==
    /\ stdout' = Append(stdout, [msg |-> "print", text |-> text])
    /\ variables' = variables
    /\ loop_stack' = loop_stack
    /\ running' = running
    /\ fault' = "none"
    /\ pc' = "running"

(* C11: `print $name$` outputs the string form of the value of `name` when  *)
(* it is bound and the text `$name$` when it is unbound, reports no error  *)
(* and leaves the Environment unchanged; the same for each of several,     *)
(* possibly adjacent, markers of one print line.                           *)
C11_PrintMarkers ==
    [][(About("print") /\ Len(Tokens) = 2)
         => \A a \in {n \in MarkerNames : StartsWith(Tokens[2], Marker(n))} :
            LET rest == AfterMarker(Tokens[2], a)
            IN  /\ rest = <<>> => OnlyPrints(Shown(a))
                /\ \A s \in Separators :
                   \A b \in {n \in MarkerNames : StartsWith(rest, s \o Marker(n))} :
                      LET last == AfterMarker(rest, s \o b)
                      IN  /\ last = <<>> => OnlyPrints(Shown(a) \o s \o Shown(b))
                          /\ \A t \in Separators, c \in MarkerNames :
                                last = t \o Marker(c)
                                  => OnlyPrints(Shown(a) \o s \o Shown(b)
                                                \o t \o Shown(c))]_vars

\* with name bound to "Ada" and nobody unbound, `print $name$`,
\* `print $nobody$` and `print $name$$nobody$ $name$` were executed
C11_Witness ==
    /\ pc = "returned"
    /\ Bound(variables, <<"n","a","m","e">>)
    /\ variables[<<"n","a","m","e">>] = StrV(<<"A","d","a">>)
    /\ ~Bound(variables, <<"n","o","b","o","d","y">>)
    /\ Len(stdout) = 3
    /\ stdout[1].text = <<"A","d","a">>
    /\ stdout[2].text = Marker(<<"n","o","b","o","d","y">>)
    /\ stdout[3].text = <<"A","d","a">> \o Marker(<<"n","o","b","o","d","y">>) \o <<" ","A","d","a">>

\* the next round executes `end loop` on a stack that is not empty
AtEndLoop == About("end loop") /\ loop_stack # <<>>

\* the next round is an `end loop` that takes the continue branch
Continuing == AtEndLoop /\ Last(loop_stack).iterator + 1 <= Last(loop_stack).end

(* C12: when an `end loop` step takes the continue branch, the next line    *)
(* the Runner executes is the line immediately after the `loop` line that  *)
(* pushed the top frame: the `loop` line is not executed again and no      *)
(* second frame is pushed for it.                                          *)
C12_ContinueAfterLoopLine ==
    [][Continuing
         => /\ CommandAt(Last(loop_stack).start + 1) = "loop"
            /\ current_line' = Last(loop_stack).start + 1
            /\ current_line' < Len(program_lines)
            /\ pc' = "running" /\ running'
            /\ Len(loop_stack') = Len(loop_stack)
            /\ Last(loop_stack').start = Last(loop_stack).start]_vars

\* an `end loop` continued and the line after the `loop` line was executed
\* next; the `loop` line was executed once and one frame is on the stack
C12_Witness ==
    /\ Len(history) >= 2
    /\ history[Len(history) - 1].cmd = "end loop"
    /\ history[Len(history) - 1].next <= history[Len(history) - 1].line
    /\ Last(history).line = history[Len(history) - 1].next
    /\ CommandAt(Last(history).line) = "loop"
    /\ Cardinality(RunsOf(Last(history).line - 1)) = 1
    /\ Len(loop_stack) = 1

\* a round of run_program executed a line and the loop goes on to its test
Executed == pc = "running" /\ pc' = "running" /\ history' # history

(* C13: the increment-by-1 of the cursor that follows a line's execution    *)
(* is suppressed exactly in the steps where `end loop` reset the cursor    *)
(* to a frame's return index, so that the next step begins at the return   *)
(* index; in every other step the cursor advances by exactly 1.            *)
C13_IncrementSuppressed ==
    [][Executed
         => current_line' = IF Continuing THEN Last(loop_stack).start
                            ELSE current_line + 1]_vars

\* C13 as the code has it: the increment is never suppressed.  After an
\* `end loop` that reset the cursor to the frame's return index the next
\* step begins at the return index + 1; after every other line it begins
\* at the cursor + 1
C13_IncrementAlways ==
    [][Executed
         => current_line' = IF Continuing THEN Last(loop_stack).start + 1
                            ELSE current_line + 1]_vars

\* an `end loop` two lines or more below its `loop` line has just jumped:
\* the cursor stands on the line after the `loop` line, and the line
\* before the `end loop` advanced the cursor by one
C13_Witness ==
    /\ pc = "running"
    /\ Len(history) >= 2
    /\ Last(history).cmd = "end loop"
    /\ loop_stack # <<>>
    /\ current_line = Last(loop_stack).start + 1
    /\ current_line < Last(history).line
    /\ history[Len(history) - 1].next = history[Len(history) - 1].line + 1
    /\ history[Len(history) - 1].next = Last(history).line

Min(a, b) == IF a <= b THEN a ELSE b

(* C14: a frame's iterator is the loop's declared start value when the      *)
(* frame is pushed, increases by exactly 1 at each `end loop` executed     *)
(* while the frame is on top and changes at no other step; the frame is    *)
(* popped in exactly the `end loop` steps where the incremented iterator   *)
(* exceeds its end bound; end bound and return index never change.         *)
C14_FrameLife ==
    [][/\ (IsLoopForm /\ StartBound.t = "Int" /\ EndBound.t = "Int")
          => loop_stack' = Append(loop_stack,
                                  Frame(current_line, StartBound.n, EndBound.n))
       /\ Len(loop_stack') = Len(loop_stack) + 1
          => /\ IsLoopForm
             /\ Last(loop_stack').iterator = IntOf(StartBound)
             /\ Last(loop_stack').end = IntOf(EndBound)
             /\ Last(loop_stack').start = current_line
       /\ AtEndLoop
          => IF Last(loop_stack).iterator + 1 > Last(loop_stack).end
             THEN Len(loop_stack') = Len(loop_stack) - 1
             ELSE /\ Len(loop_stack') = Len(loop_stack)
                  /\ Last(loop_stack').iterator = Last(loop_stack).iterator + 1
       /\ (~About("loop") /\ ~AtEndLoop) => loop_stack' = loop_stack
       /\ Len(loop_stack') <= Len(loop_stack) + 1
       /\ \A k \in 1..Min(Len(loop_stack), Len(loop_stack')) :
             /\ loop_stack'[k].start = loop_stack[k].start
             /\ loop_stack'[k].end = loop_stack[k].end
             /\ (k < Len(loop_stack) \/ ~AtEndLoop)
                   => loop_stack'[k].iterator = loop_stack[k].iterator]_vars

\* the frame of a loop through S and S+2 has just been popped by the third
\* `end loop`, which left S+3 in `i`
C14_Witness ==
    /\ pc = "running"
    /\ history # <<>>
    /\ Last(history).cmd = "end loop"
    /\ Last(history).depth = 0
    /\ IsConstantLoop(1)
    /\ TripsOf(1) = 3
    /\ Cardinality(RunsOf(Last(history).line)) = 3
    /\ ValueOfI(variables) = IntV(StartOf(1) + 3)

\* the frames below the top of the stack
LowerFrames == SubSeq(loop_stack, 1, Len(loop_stack) - 1)

(* C15: an `end loop` step modifies only the top frame of the loop stack:   *)
(* the frames below it are unchanged, after a pop the remaining frames     *)
(* are the former lower frames in the same order, and the value written    *)
(* to `i` is the former top frame's incremented iterator.                  *)
C15_OnlyTopFrame ==
    [][AtEndLoop
         => /\ \/ loop_stack' = LowerFrames
               \/ /\ Len(loop_stack') = Len(loop_stack)
                  /\ SubSeq(loop_stack', 1, Len(loop_stack) - 1) = LowerFrames
            /\ ValueOfI(variables') = IntV(Last(loop_stack).iterator + 1)
            /\ DOMAIN variables' = DOMAIN variables \cup {name_i}
            /\ \A name \in DOMAIN variables \ {name_i} :
                  variables'[name] = variables[name]]_vars

\* the inner of two frames has just been popped: the outer frame is what
\* is left, and `i` holds the inner frame's incremented iterator, which
\* differs from the outer frame's
C15_Witness ==
    /\ Len(history) >= 2
    /\ Last(history).cmd = "end loop"
    /\ history[Len(history) - 1].depth = 2
    /\ Len(loop_stack) = 1
    /\ ValueOfI(variables) # IntV(loop_stack[1].iterator + 1)
    /\ ValueOfI(variables) # IntV(loop_stack[1].iterator)

(* C16: the set of names bound in the Environment never shrinks: every      *)
(* name bound before a step is bound after it, in particular every         *)
(* pre-seeded built-in name; bindings are added or overwritten, never      *)
(* deleted.                                                                *)
C16_NamesKept ==
    /\ [](DOMAIN init_builtins \subseteq DOMAIN variables)
    /\ [][DOMAIN variables \subseteq DOMAIN variables']_vars

\* the built-in names pi and abs were overwritten by `set`, and every
\* pre-seeded name is still bound
C16_Witness ==
    /\ pc = "returned"
    /\ variables[<<"p","i">>] = IntV(3)
    /\ variables[<<"a","b","s">>] = StrV(<<"x">>)
    /\ DOMAIN variables = DOMAIN init_builtins

\* what C17 sets aside: an `ask` whose read did not return (EOFError), a
\* loop bound that is no number (TypeError)
SetAside == fault \in {"EOFError", "TypeError"}

(* C17: run_program terminates for every finite program whose loop bounds   *)
(* are finite integers, whatever the arrangement of `loop` and `end loop`  *)
(* lines and whatever the body assigns, provided each `ask` read returns:  *)
(* the cursor eventually passes the last line or the running flag is       *)
(* cleared.                                                                *)
C17_Terminates ==
    (pc = "running")
       ~> (\/ /\ pc = "returned"
              /\ (current_line >= Len(program_lines) \/ ~running)
           \/ SetAside)

\* run_program returned from a program of three nested `loop` lines and two
\* `end loop` lines, after more rounds than twice its lines, the frame of
\* the outer loop still on the stack
C17_Witness ==
    /\ pc = "returned"
    /\ current_line = Len(program_lines)
    /\ Len(loop_stack) = 1
    /\ Cardinality({p \in 1..Len(program_lines) : CommandAt(p) = "loop"}) = 3
    /\ Cardinality({p \in 1..Len(program_lines) : CommandAt(p) = "end loop"}) = 2
    /\ Len(history) > 2 * Len(program_lines)

\* the positions of the `loop` lines of the program
LoopLines == {p \in 1..Len(program_lines) : CommandAt(p) = "loop"}

(* C18: between steps the return indices of the frames on the loop stack    *)
(* are strictly increasing from bottom to top and every one of them is     *)
(* smaller than the cursor; so no `loop` line has two live frames and the  *)
(* stack depth never exceeds the number of `loop` lines of the program.    *)
C18_FramesOrdered ==
    /\ \A k \in 1..Len(loop_stack) :
          /\ loop_stack[k].start < current_line
          /\ loop_stack[k].start + 1 \in LoopLines
          /\ k > 1 => loop_stack[k - 1].start < loop_stack[k].start
    /\ \A k \in 1..Len(loop_stack), m \in 1..Len(loop_stack) :
          loop_stack[k].start = loop_stack[m].start => k = m
    /\ Len(loop_stack) <= Cardinality(LoopLines)

\* three frames are live, pushed by the `loop` lines 0, 1 and 2, during a
\* later iteration of the middle loop
C18_Witness ==
    /\ pc = "running"
    /\ Len(loop_stack) = 3
    /\ loop_stack[1].start = 0
    /\ loop_stack[2].start = 1
    /\ loop_stack[3].start = 2
    /\ loop_stack[2].iterator > 1
    /\ current_line = 3

\* the 1-based positions in the history of the rounds that executed a
\* `loop` line and pushed a frame
Pushes == {j \in 1..Len(history) :
              /\ history[j].cmd = "loop"
              /\ history[j].depth = (IF j = 1 THEN 0 ELSE history[j - 1].depth) + 1}

\* the rounds after round j that executed `end loop`
EndLoopsAfter(j) == {m \in (j + 1)..Len(history) : history[m].cmd = "end loop"}

(* C19: the number of iterations of a loop is fixed by the bounds evaluated *)
(* when its `loop` line executed and not affected by the body: a set or    *)
(* ask in the body, also one that assigns `i` or a variable the bounds     *)
(* were read from, changes neither the frame's iterator nor its end bound, *)
(* and the next `end loop` overwrites `i` with the frame's incremented     *)
(* iterator.                                                               *)
C19_BodyCannotSteer ==
    /\ [][/\ (About("set") \/ About("ask")) => loop_stack' = loop_stack
          /\ AtEndLoop
             => /\ ValueOfI(variables') = IntV(Last(loop_stack).iterator + 1)
                /\ Len(loop_stack') = Len(loop_stack)
                      => Last(loop_stack') =
                            [Last(loop_stack) EXCEPT !.iterator = @ + 1]]_vars
    /\ [](\A j \in Pushes :
            (/\ j < Len(history)
             /\ Len(loop_stack) = 1
             /\ \A m \in j..Len(history) : history[m].depth = 1)
              => loop_stack[1].iterator
                    = history[j + 1].i.n + Cardinality(EndLoopsAfter(j)))

\* `loop through 1 and n` with n = 2 ran a body that sets n to 5 exactly
\* twice and left 3 in `i`
C19_Witness ==
    /\ pc = "returned"
    /\ Len(program_lines) = 5
    /\ Len(TokensAt(2)) = 5
    /\ TokensAt(2)[5] = <<"n">>
    /\ CommandAt(3) = "set"
    /\ Bound(variables, <<"n">>)
    /\ variables[<<"n">>] = IntV(5)
    /\ Cardinality(RunsOf(2)) = 2
    /\ ValueOfI(variables) = IntV(3)

\* the line at position p is `loop through S and E` with integer literals
\* S > E
IsReversedLoop(p) ==
    /\ CommandAt(p) = "loop"
    /\ Len(TokensAt(p)) = 5
    /\ Lower(TokensAt(p)[2]) = kw_through
    /\ Lower(TokensAt(p)[4]) = kw_and
    /\ IntTextOK(TokensAt(p)[3])
    /\ IntTextOK(TokensAt(p)[5])
    /\ IntTextValue(TokensAt(p)[3]) > IntTextValue(TokensAt(p)[5])

\* the program is `loop through S and E` / body / `end loop` / rest with
\* S > E
IsReversedLoopProgram ==
    /\ pc # "constructed"
    /\ Len(program_lines) >= 3
    /\ IsReversedLoop(1)
    /\ EndLoopAfter(1) > 2
    /\ PlainLines(2, EndLoopAfter(1) - 1)

EndOf(p) == IntTextValue(TokensAt(p)[5])

Max(a, b) == IF a >= b THEN a ELSE b

\* the value of `i` that round j of the history left
IAfter(j) == IF j < Len(history) THEN history[j + 1].i ELSE ValueOfI(variables)

(* C20: `loop through S and E` with integers S > E is still entered: a      *)
(* frame is pushed with iterator S, the body executes exactly once with    *)
(* `i` = S, and the first `end loop` pops the frame and leaves `i` = S+1;  *)
(* after any completed loop `i` equals max(S, E) + 1.                      *)
C20_ReversedBounds ==
    /\ IsReversedLoopProgram =>
          LET e == EndLoopAfter(1) - 1
          IN  /\ Len(history) = 1 =>
                    loop_stack = <<Frame(0, StartOf(1), EndOf(1))>>
              /\ \A j \in RunsOf(1) :
                    RankOf(1, j) = 1 /\ history[j].i = IntV(StartOf(1))
              /\ Ended =>
                    /\ \A k \in 1..e : Cardinality(RunsOf(k)) = 1
                    /\ \E j \in RunsOf(e) :
                          /\ history[j].depth = 0
                          /\ history[j].next = e + 1
                          /\ IAfter(j) = IntV(StartOf(1) + 1)
    /\ (IsReversedLoopProgram \/ IsSimpleLoopProgram) =>
          \A j \in RunsOf(EndLoopAfter(1) - 1) :
             history[j].depth = 0
               => IAfter(j) = IntV(Max(StartOf(1), EndOf(1)) + 1)

\* C20 for the runs that no exception leaves
C20_ReversedBoundsUnlessRaised == fault = "none" => C20_ReversedBounds

\* a loop through 3 and 1 ran its two-line body once, its `end loop` once,
\* and the line after it printed 4
C20_Ran ==
    /\ IsReversedLoopProgram
    /\ pc = "returned"
    /\ StartOf(1) = 3 /\ EndOf(1) = 1
    /\ EndLoopAfter(1) = 4
    /\ Cardinality(RunsOf(1)) = 1
    /\ Cardinality(RunsOf(3)) = 1
    /\ loop_stack = <<>>
    /\ ValueOfI(variables) = IntV(4)
    /\ Last(stdout).text = <<"4">>

====
